---- MODULE Spec2Model ----
(***************************************************************************)
(* Model of the depositor binary (depositor/src/main.rs): one sequential   *)
(* run of main(), from argument record to exit, with the remote signer as  *)
(* an environment that may answer the single HTTP request with any         *)
(* response of a bounded family (honest or not), or not at all.            *)
(*                                                                         *)
(* Rust indices are 0-based, TLA+ sequences 1-based: output[0] of the code *)
(* is output[1] here (see Out0); outpoints keep the code's 0-based vout.   *)
(* Option<T> is modelled as a sequence: None is << >>, Some(x) is <<x>>.   *)
(***************************************************************************)
EXTENDS Integers, Sequences, FiniteSets, TLC

VARIABLES
    args,           \* the parsed Args record (main.rs:36-66)
    pc,             \* position of main()
    err,            \* the site of the panic that ended the run, "" if none
    stdout,         \* the lines printed so far, by their label
    requests,       \* number of HTTP POSTs issued to the signer
    body,           \* Option<SignPsbtReq>: the request body last sent
    log,            \* the stages performed so far, in order
    keypair,        \* Option<Keypair>
    utxos,          \* Option<TxOut>: utxos[0] / deposit_prevout
    unsigned_tx,    \* Option<Transaction>: the locally built transaction
    psbt,           \* Option<Psbt>: the pre-exchange PSBT
    resp,           \* Option<SignPsbtResp>
    presigned_tx,   \* Option<Transaction>
    deposit_psbt,   \* Option<Psbt>: the PSBT that is updated, signed, finalized
    signed_tx       \* Option<Transaction>

vars == <<args, pc, err, stdout, requests, body, log, keypair, utxos, unsigned_tx,
          psbt, resp, presigned_tx, deposit_psbt, signed_tx>>

---------------------------------------------------------------------------
(* Bounds *)

\* Amounts range over 1..MaxAmt (abstract satoshi units).
MaxAmt == 3

---------------------------------------------------------------------------
(* Values *)

None == << >>
Some(x) == <<x>>
IsSome(o) == Len(o) = 1
Unwrap(o) == o[1]

Amounts == 1..MaxAmt

\* Secrets that parse as a valid scalar, and those gen_keypair may draw.
HexSecrets == {"s1"}
FreshSecrets == {"r1", "r2"}
\* Keys the remote signer may hold.
SignerSecrets == {"sS", "sX"}

\* The x-only public key of a secret.
XOnly(secret) == [pk_of |-> secret]

\* ScriptBuf::default(): the empty script.
EmptyScript == << >>
\* ScriptBuf::new_p2tr(secp, internal_key, None): OP_1 <output key>.
P2TR(xonly) == <<"OP_1", xonly>>

\* Funding outpoints the operator may name, and a foreign one.
ExtTxid(n) == [ext |-> n]
OutPoint(txid, vout) == [txid |-> txid, vout |-> vout]
FundingOutPoints == {OutPoint(ExtTxid("fA"), 0), OutPoint(ExtTxid("fB"), 1)}
ForeignOutPoint == OutPoint(ExtTxid("fX"), 0)

\* Address strings: one valid for the network, one that is not.
GoodAddrs == {"addr_ok"}
BadAddrs == {"addr_wrong_network"}
AddrScript(a) == P2TR(XOnly(a))

\* A 32-bit sequence number, kept as its two 16-bit halves.
Sequence32(hi, lo) == [hi |-> hi, lo |-> lo]
\* Sequence::ENABLE_RBF_NO_LOCKTIME = 0xFFFFFFFD.
ENABLE_RBF_NO_LOCKTIME == Sequence32(65535, 65533)

TxOut(value, spk) == [value |-> value, script_pubkey |-> spk]

\* psbt::Input with every field at its Default.
DefaultInput ==
    [ witness_utxo |-> None,
      partial_sigs |-> {},
      sighash_type |-> None,
      redeem_script |-> None,
      witness_script |-> None,
      bip32_derivation |-> {},
      final_script_sig |-> None,
      final_script_witness |-> None,
      tap_key_sig |-> None,
      tap_internal_key |-> None,
      tap_key_origins |-> {} ]

Out0(tx) == tx.output[1]

RECURSIVE SumValues(_)
SumValues(outs) ==
    IF outs = << >> THEN 0 ELSE Head(outs).value + SumValues(Tail(outs))

\* The transaction id: a hash of the transaction without its witnesses,
\* modelled injectively by the hashed content itself.
Txid(tx) ==
    [ version |-> tx.version,
      lock_time |-> tx.lock_time,
      ins |-> [i \in DOMAIN tx.input |->
                 [ previous_output |-> tx.input[i].previous_output,
                   script_sig |-> tx.input[i].script_sig,
                   sequence |-> tx.input[i].sequence ]],
      outs |-> tx.output ]

\* The Taproot key-spend signature hash under SIGHASH_ALL: commits to the
\* whole transaction (less witnesses) and to every spent output.
TapSighash(tx, spent, ty) == [tx |-> Txid(tx), spent |-> spent, ty |-> ty]

\* A Schnorr signature by `secret` over `msg`.
Schnorr(secret, msg) == [key |-> XOnly(secret), msg |-> msg]

---------------------------------------------------------------------------
(* Library operations the run calls *)

\* Psbt::from_unsigned_tx: refuses a transaction with a script-sig or a
\* witness; attaches one default Input per transaction input.
FromUnsignedTxOk(tx) ==
    \A i \in DOMAIN tx.input :
        tx.input[i].script_sig = EmptyScript /\ tx.input[i].witness = << >>

FromUnsignedTx(tx) ==
    [ unsigned_tx |-> tx,
      inputs |-> [i \in DOMAIN tx.input |-> DefaultInput] ]

\* Psbt::extract_tx computes the fee first: it fails when an input carries
\* no UTXO or when the outputs exceed the inputs.
RECURSIVE SumUtxos(_)
SumUtxos(ins) ==
    IF ins = << >> THEN 0
    ELSE Unwrap(Head(ins).witness_utxo).value + SumUtxos(Tail(ins))

ExtractTxOk(p) ==
    /\ Len(p.inputs) = Len(p.unsigned_tx.input)
    /\ \A i \in DOMAIN p.inputs : IsSome(p.inputs[i].witness_utxo)
    /\ SumUtxos(p.inputs) >= SumValues(p.unsigned_tx.output)

ExtractTx(p) ==
    [ p.unsigned_tx EXCEPT !.input =
        [ i \in DOMAIN p.unsigned_tx.input |->
            [ p.unsigned_tx.input[i] EXCEPT
                !.script_sig =
                    IF IsSome(p.inputs[i].final_script_sig)
                    THEN Unwrap(p.inputs[i].final_script_sig) ELSE EmptyScript,
                !.witness =
                    IF IsSome(p.inputs[i].final_script_witness)
                    THEN Unwrap(p.inputs[i].final_script_witness) ELSE << >> ] ] ]

\* Psbt::sign for Taproot key-path inputs: an input is signed when its
\* internal key is in the key map and every input names its spent output.
SpentOf(p) == [i \in DOMAIN p.inputs |-> Unwrap(p.inputs[i].witness_utxo)]

SignOk(p, key_map) ==
    /\ Len(p.inputs) = Len(p.unsigned_tx.input)
    /\ \A i \in DOMAIN p.inputs :
        /\ IsSome(p.inputs[i].witness_utxo)
        /\ IsSome(p.inputs[i].tap_internal_key)
        /\ Unwrap(p.inputs[i].tap_internal_key) \in DOMAIN key_map

Sign(p, key_map) ==
    [ p EXCEPT !.inputs =
        [ i \in DOMAIN p.inputs |->
            [ p.inputs[i] EXCEPT !.tap_key_sig =
                LET ty == IF IsSome(p.inputs[i].sighash_type)
                          THEN Unwrap(p.inputs[i].sighash_type) ELSE "Default"
                IN  Some([ signature |->
                             Schnorr(key_map[Unwrap(p.inputs[i].tap_internal_key)],
                                     TapSighash(p.unsigned_tx, SpentOf(p), ty)),
                           sighash_type |-> ty ]) ] ] ]

\* Witness::p2tr_key_spend: the one-element witness stack.
P2trKeySpend(sig) == <<sig>>

\* Script verification of one input against the output it is said to spend.
\* A P2TR output accepts an empty script-sig and a one-element witness
\* holding a signature by the output key over this transaction and all the
\* spent outputs; the empty script with an empty script-sig leaves an empty
\* stack and fails.
VerifyInput(tx, i, spent) ==
    LET spk == spent[i].script_pubkey
        w == tx.input[i].witness
    IN  /\ Len(spk) = 2
        /\ spk[1] = "OP_1"
        /\ tx.input[i].script_sig = EmptyScript
        /\ Len(w) = 1
        /\ w[1].signature.key = spk[2]
        /\ w[1].signature.msg = TapSighash(tx, spent, w[1].sighash_type)

\* Transaction::verify(spent): every input's outpoint is resolved through the
\* closure `spent` (a miss is an error), then each input's script is run.
\* `oracle` is the closure as a function from outpoints to Option<TxOut>.
\* VerifyInput is the strictest verifier the library can be built with (full
\* Taproot rules); one that runs pre-Taproot rules only accepts every
\* transaction accepted here and more.
Verify(tx, oracle) ==
    /\ \A i \in DOMAIN tx.input : IsSome(oracle[tx.input[i].previous_output])
    /\ LET spent == [i \in DOMAIN tx.input |->
                        Unwrap(oracle[tx.input[i].previous_output])]
       IN  \A i \in DOMAIN tx.input : VerifyInput(tx, i, spent)

---------------------------------------------------------------------------
(* The remote signer (the peer of initiate_sign) *)

\* The deposit PSBTs the signer may return for the PSBT `sent`: the same
\* transaction with output 0's script filled in (the honest answer), or with
\* the input's outpoint, output 0's amount or script, or the change altered.
\* Every returned deposit keeps exactly one input.
DepositVariants(sent) ==
    LET tx == sent.unsigned_tx IN
    { [ sent EXCEPT
          !.unsigned_tx.input[1].previous_output = op,
          !.unsigned_tx.output = <<TxOut(a, spk)>> \o tail ] :
        op \in {tx.input[1].previous_output, ForeignOutPoint},
        a \in Amounts,
        spk \in {EmptyScript, P2TR(XOnly("sS"))},
        tail \in {Tail(tx.output), << >>} }

\* The finalized spend PSBTs the signer may return along with deposit `dep`:
\* one input, spending `ref`, signed by `sk` over the output `claimed`.
SpendPsbt(ref, claimed, sk, meta, fallback_addr) ==
    LET tx == [ version |-> 2,
                lock_time |-> 0,
                input |-> << [ previous_output |-> ref,
                               script_sig |-> EmptyScript,
                               sequence |-> ENABLE_RBF_NO_LOCKTIME,
                               witness |-> << >> ] >>,
                output |-> << TxOut(1, AddrScript(fallback_addr)) >> ]
        sig == [ signature |-> Schnorr(sk, TapSighash(tx, <<claimed>>, "All")),
                 sighash_type |-> "All" ]
    IN  [ unsigned_tx |-> tx,
          inputs |-> << [ DefaultInput EXCEPT
                            !.witness_utxo = IF meta THEN Some(claimed) ELSE None,
                            !.final_script_witness = Some(P2trKeySpend(sig)) ] >> ]

SpendVariants(dep, fallback_addr) ==
    { SpendPsbt(ref, claimed, sk, meta, fallback_addr) :
        ref \in { OutPoint(Txid(dep.unsigned_tx), 0),
                  OutPoint(Txid(dep.unsigned_tx), 1),
                  ForeignOutPoint },
        claimed \in { Out0(dep.unsigned_tx), TxOut(1, P2TR(XOnly("sS"))) },
        sk \in SignerSecrets,
        meta \in BOOLEAN }

\* SignPsbtResp { deposit_psbt, spend_psbt } for the request (sent, fallback).
SignerResponses(sent, fallback_addr) ==
    UNION { { [ deposit_psbt |-> dep, spend_psbt |-> sp ] :
                sp \in SpendVariants(dep, fallback_addr) } :
            dep \in DepositVariants(sent) }

\* The answer of a signer that follows the protocol.
HonestResponse(sent, fallback_addr) ==
    LET dep == [ sent EXCEPT
                   !.unsigned_tx.output[1].script_pubkey = P2TR(XOnly("sS")) ]
    IN  [ deposit_psbt |-> dep,
          spend_psbt |-> SpendPsbt(OutPoint(Txid(dep.unsigned_tx), 0),
                                   Out0(dep.unsigned_tx), "sS", TRUE,
                                   fallback_addr) ]

---------------------------------------------------------------------------
(* main() *)

Emit(lines) == stdout' = stdout \o lines
Stage(name) == log' = Append(log, name)
Panic(site) == pc' = "panicked" /\ err' = site
Goto(label) == pc' = label /\ err' = err

ArgsSpace ==
    [ prevout : FundingOutPoints,
      prev_amt : Amounts,
      fallback_addr : GoodAddrs \cup BadAddrs,
      output_amt : Amounts,
      change_addr : {None} \cup {Some(a) : a \in GoodAddrs \cup BadAddrs},
      change_amt : {None, Some(1)},
      client_url : {None, Some("127.0.0.1:3000")},
      priv_key : {None, Some("new"), Some("not-hex")}
                   \cup {Some(h) : h \in HexSecrets},
      network : {"signet"} ]

Init ==
    /\ args \in ArgsSpace
    /\ pc = "key"
    /\ err = ""
    /\ stdout = << >>
    /\ requests = 0
    /\ body = None
    /\ log = << >>
    /\ keypair = None
    /\ utxos = None
    /\ unsigned_tx = None
    /\ psbt = None
    /\ resp = None
    /\ presigned_tx = None
    /\ deposit_psbt = None
    /\ signed_tx = None

\* parse_address(addr, network) succeeds.
ParseAddressOk(addr) == addr \in GoodAddrs

\* KeyMaterial without the early return of lines 92-94.
KeyMaterial_NoEarlyReturn ==
    /\ pc = "key"
    /\ IF args.priv_key = None
       THEN /\ Emit(<<"priv key needed">>)
            /\ Goto("returned")
            /\ UNCHANGED keypair
       ELSE LET priv_str == Unwrap(args.priv_key) IN
            IF priv_str \in HexSecrets \cup {"new"}
            THEN /\ \E sk \in (IF priv_str = "new" THEN FreshSecrets
                                ELSE {priv_str}) :
                        keypair' = Some([secret |-> sk])
                 /\ Emit(<<"priv", "pub", "address">>)
                 /\ Goto("fallback")
            ELSE /\ Panic("secret_key")
                 /\ UNCHANGED <<keypair, stdout>>
    /\ UNCHANGED <<args, requests, body, log, utxos, unsigned_tx, psbt, resp,
                   presigned_tx, deposit_psbt, signed_tx>>

\* Lines 75-102: generate a new keypair or use the given private key.
KeyMaterial ==
    /\ pc = "key"
    /\ IF args.priv_key = None
       THEN /\ Emit(<<"priv key needed">>)
            /\ Goto("returned")
            /\ UNCHANGED keypair
       ELSE LET priv_str == Unwrap(args.priv_key) IN
            IF priv_str = "new"
            THEN /\ \E sk \in FreshSecrets : keypair' = Some([secret |-> sk])
                 /\ Emit(<<"priv", "pub", "address">>)
                 /\ Goto("returned")
            ELSE IF priv_str \in HexSecrets
            THEN /\ keypair' = Some([secret |-> priv_str])
                 /\ Emit(<<"priv", "pub", "address">>)
                 /\ Goto("fallback")
            ELSE /\ Panic("secret_key")
                 /\ UNCHANGED <<keypair, stdout>>
    /\ UNCHANGED <<args, requests, body, log, utxos, unsigned_tx, psbt, resp,
                   presigned_tx, deposit_psbt, signed_tx>>

\* keypair.x_only_public_key() and the P2TR script of the address (85-96).
xpub == XOnly(Unwrap(keypair).secret)
script_pub == P2TR(xpub)

\* Line 105.
ParseFallbackAddr ==
    /\ pc = "fallback"
    /\ IF ParseAddressOk(args.fallback_addr)
       THEN Goto("prevout")
       ELSE Panic("parse_address")
    /\ UNCHANGED <<args, stdout, requests, body, log, keypair, utxos, unsigned_tx,
                   psbt, resp, presigned_tx, deposit_psbt, signed_tx>>

\* Lines 107-116.
deposit_prevout == TxOut(args.prev_amt, script_pub)

BuildDepositPrevout ==
    /\ pc = "prevout"
    /\ utxos' = Some(deposit_prevout)
    /\ Emit(<<"prevout">>)
    /\ Goto("build")
    /\ UNCHANGED <<args, requests, body, log, keypair, unsigned_tx, psbt, resp,
                   presigned_tx, deposit_psbt, signed_tx>>

\* Lines 118-124.
input ==
    [ previous_output |-> args.prevout,
      script_sig |-> EmptyScript,
      sequence |-> ENABLE_RBF_NO_LOCKTIME,
      witness |-> << >> ]

\* Lines 126-131.
deposit_output == TxOut(args.output_amt, EmptyScript)

\* Lines 133-143: the change output; fails on a bad address and on a
\* missing amount, in that order, only when change_addr is given.
ChangeOk ==
    \/ args.change_addr = None
    \/ /\ ParseAddressOk(Unwrap(args.change_addr))
       /\ args.change_amt # None

ChangePanicSite ==
    IF ~ParseAddressOk(Unwrap(args.change_addr))
    THEN "parse_address" ELSE "change_amt"

change ==
    IF args.change_addr = None THEN None
    ELSE Some(TxOut(Unwrap(args.change_amt),
                    AddrScript(Unwrap(args.change_addr))))

\* The outputs with the change placed first.
outputs_ChangeFirst ==
    IF change = None THEN <<deposit_output>>
    ELSE <<Unwrap(change), deposit_output>>

\* Lines 145-148.
outputs ==
    IF change = None THEN <<deposit_output>>
    ELSE <<deposit_output, Unwrap(change)>>

\* Lines 118-156.
BuildUnsignedTx ==
    /\ pc = "build"
    /\ IF ChangeOk
       THEN /\ unsigned_tx' = Some([ version |-> 2,
                                     lock_time |-> 0,
                                     input |-> <<input>>,
                                     output |-> outputs ])
            /\ Goto("creator")
       ELSE /\ Panic(ChangePanicSite)
            /\ UNCHANGED unsigned_tx
    /\ UNCHANGED <<args, stdout, requests, body, log, keypair, utxos, psbt, resp,
                   presigned_tx, deposit_psbt, signed_tx>>

\* Line 161: the Creator role.
CreatePsbt ==
    /\ pc = "creator"
    /\ IF FromUnsignedTxOk(Unwrap(unsigned_tx))
       THEN /\ psbt' = Some(FromUnsignedTx(Unwrap(unsigned_tx)))
            /\ Stage("psbt_built")
            /\ Goto("call")
       ELSE /\ Panic("from_unsigned_tx")
            /\ UNCHANGED <<psbt, log>>
    /\ UNCHANGED <<args, stdout, requests, body, keypair, utxos, unsigned_tx, resp,
                   presigned_tx, deposit_psbt, signed_tx>>

\* Lines 163 and 231-249: client_url.unwrap(), then initiate_sign up to the
\* point where the POST is sent and the task suspends.
InitiateSign ==
    /\ pc = "call"
    /\ IF args.client_url = None
       THEN /\ Panic("client_url")
            /\ UNCHANGED <<stdout, requests, body, log>>
       ELSE /\ Emit(<<"url", "body_json">>)
            /\ body' = Some([ psbt |-> Unwrap(psbt),
                              fallback_addr |-> args.fallback_addr ])
            /\ requests' = requests + 1
            /\ Stage("request")
            /\ Goto("await")
    /\ UNCHANGED <<args, keypair, utxos, unsigned_tx, psbt, resp,
                   presigned_tx, deposit_psbt, signed_tx>>

\* The reqwest::Error values of lines 250 and 252.
RequestErrors == {"connect_error", "decode_error"}

\* A failed request that is sent once more before the error is raised.
SignerFails_Retry ==
    /\ pc = "await"
    /\ IF requests < 2
       THEN /\ Goto("call")
       ELSE /\ \E why \in RequestErrors : Panic(why)
    /\ UNCHANGED <<args, stdout, requests, body, log, keypair, utxos, unsigned_tx,
                   psbt, resp, presigned_tx, deposit_psbt, signed_tx>>

\* Lines 249-252 and 165: send() or json() returns Err (connect failure,
\* malformed body); `?` hands it to main, whose unwrap() panics.
SignerFails ==
    /\ pc = "await"
    /\ \E why \in RequestErrors : Panic(why)
    /\ UNCHANGED <<args, stdout, requests, body, log, keypair, utxos, unsigned_tx,
                   psbt, resp, presigned_tx, deposit_psbt, signed_tx>>

\* Lines 249-255 and 165: the whole response body has been received and
\* parsed as a SignPsbtResp.
SignerResponds ==
    /\ pc = "await"
    /\ \E r \in SignerResponses(Unwrap(body).psbt, Unwrap(body).fallback_addr) :
           resp' = Some(r)
    /\ Emit(<<"resp">>)
    /\ Stage("response")
    /\ Goto("extract_spend")
    /\ UNCHANGED <<args, requests, body, keypair, utxos, unsigned_tx, psbt,
                   presigned_tx, deposit_psbt, signed_tx>>

\* ExtractPresigned carrying on with the local PSBT instead of the returned.
ExtractPresigned_LocalPsbt ==
    /\ pc = "extract_spend"
    /\ IF ExtractTxOk(Unwrap(resp).spend_psbt)
       THEN /\ presigned_tx' = Some(ExtractTx(Unwrap(resp).spend_psbt))
            /\ deposit_psbt' = psbt
            /\ Emit(<<"Presigned Details", "Raw presigned Transaction">>)
            /\ Stage("spend_extracted")
            /\ Goto("update")
       ELSE /\ Panic("spend_extract")
            /\ UNCHANGED <<presigned_tx, deposit_psbt, stdout, log>>
    /\ UNCHANGED <<args, requests, body, keypair, utxos, unsigned_tx, psbt, resp,
                   signed_tx>>

\* Lines 166-170: extract the presigned spend, take over the returned
\* deposit PSBT, print the spend.
ExtractPresigned ==
    /\ pc = "extract_spend"
    /\ IF ExtractTxOk(Unwrap(resp).spend_psbt)
       THEN /\ presigned_tx' = Some(ExtractTx(Unwrap(resp).spend_psbt))
            /\ deposit_psbt' = Some(Unwrap(resp).deposit_psbt)
            /\ Emit(<<"Presigned Details", "Raw presigned Transaction">>)
            /\ Stage("spend_extracted")
            /\ Goto("update")
       ELSE /\ Panic("spend_extract")
            /\ UNCHANGED <<presigned_tx, deposit_psbt, stdout, log>>
    /\ UNCHANGED <<args, requests, body, keypair, utxos, unsigned_tx, psbt, resp,
                   signed_tx>>

\* Lines 172-175.
key_map == [k \in {xpub} |-> Unwrap(keypair).secret]

\* Lines 177-178: xpub -> (no leaf hashes, default key source).
deposit_origin_input == {[key |-> xpub, leaf_hashes |-> << >>, source |-> "default"]}

\* Lines 180-188: the Updater role; the input list is replaced by one Input.
UpdateDeposit ==
    /\ pc = "update"
    /\ deposit_psbt' = Some([ Unwrap(deposit_psbt) EXCEPT !.inputs =
            << [ DefaultInput EXCEPT
                   !.witness_utxo = Some(deposit_prevout),
                   !.tap_key_origins = deposit_origin_input,
                   !.tap_internal_key = Some(xpub),
                   !.sighash_type = Some("All") ] >> ])
    /\ Goto("sign")
    /\ UNCHANGED <<args, stdout, requests, body, log, keypair, utxos, unsigned_tx,
                   psbt, resp, presigned_tx, signed_tx>>

\* Line 190: the Signer role.
SignDeposit ==
    /\ pc = "sign"
    /\ IF SignOk(Unwrap(deposit_psbt), key_map)
       THEN /\ deposit_psbt' = Some(Sign(Unwrap(deposit_psbt), key_map))
            /\ Stage("sign")
            /\ Goto("finalize")
       ELSE /\ Panic("sign")
            /\ UNCHANGED <<deposit_psbt, log>>
    /\ UNCHANGED <<args, stdout, requests, body, keypair, utxos, unsigned_tx, psbt,
                   resp, presigned_tx, signed_tx>>

\* Lines 191-201: what the closure does to one input.
FinalizeInput(inp) ==
    [ inp EXCEPT
        !.final_script_witness = Some(P2trKeySpend(Unwrap(inp.tap_key_sig))),
        !.partial_sigs = {},
        !.sighash_type = None,
        !.redeem_script = None,
        !.witness_script = None,
        !.bip32_derivation = {} ]

\* Lines 191-203: the Finalizer role, then the PSBT is printed.
FinalizeDeposit ==
    /\ pc = "finalize"
    /\ IF \A i \in DOMAIN Unwrap(deposit_psbt).inputs :
              IsSome(Unwrap(deposit_psbt).inputs[i].tap_key_sig)
       THEN /\ deposit_psbt' = Some([ Unwrap(deposit_psbt) EXCEPT !.inputs =
                    [ i \in DOMAIN Unwrap(deposit_psbt).inputs |->
                        FinalizeInput(Unwrap(deposit_psbt).inputs[i]) ] ])
            /\ Emit(<<"Deposit PSBT">>)
            /\ Stage("finalize")
            /\ Goto("extract_deposit")
       ELSE /\ Panic("tap_key_sig")
            /\ UNCHANGED <<deposit_psbt, stdout, log>>
    /\ UNCHANGED <<args, requests, body, keypair, utxos, unsigned_tx, psbt, resp,
                   presigned_tx, signed_tx>>

\* Lines 205-211: the Extractor role, then the deposit is printed.
ExtractDeposit ==
    /\ pc = "extract_deposit"
    /\ IF ExtractTxOk(Unwrap(deposit_psbt))
       THEN /\ signed_tx' = Some(ExtractTx(Unwrap(deposit_psbt)))
            /\ Emit(<<"Deposit Details", "Raw deposit Transaction">>)
            /\ Stage("deposit_extracted")
            /\ Goto("verify_deposit")
       ELSE /\ Panic("deposit_extract")
            /\ UNCHANGED <<signed_tx, stdout, log>>
    /\ UNCHANGED <<args, requests, body, keypair, utxos, unsigned_tx, psbt, resp,
                   presigned_tx, deposit_psbt>>

\* The outpoints a transaction's inputs name.
PrevOuts(tx) == {tx.input[i].previous_output : i \in DOMAIN tx.input}

\* Lines 214-217: the closure handed to the deposit's verify.
DepositSpent(op) == Some(Unwrap(utxos))

\* Lines 223-226: the closure handed to the presigned spend's verify.
SpendSpent(op) == Some(Out0(Unwrap(signed_tx)))

\* Lines 213-219.
VerifyDeposit ==
    /\ pc = "verify_deposit"
    /\ Stage("verify_deposit")
    /\ IF Verify(Unwrap(signed_tx),
                 [op \in PrevOuts(Unwrap(signed_tx)) |-> DepositSpent(op)])
       THEN /\ Emit(<<"fetchin op", "Transaction Result">>)
            /\ Goto("verify_spend")
       ELSE /\ Emit(<<"fetchin op">>)
            /\ Panic("deposit_verify")
    /\ UNCHANGED <<args, requests, body, keypair, utxos, unsigned_tx, psbt, resp,
                   presigned_tx, deposit_psbt, signed_tx>>

\* Lines 221-229.
VerifySpend ==
    /\ pc = "verify_spend"
    /\ Stage("verify_spend")
    /\ IF Verify(Unwrap(presigned_tx),
                 [op \in PrevOuts(Unwrap(presigned_tx)) |-> SpendSpent(op)])
       THEN /\ Emit(<<"fetchin op", "Pre-signed Transaction Result">>)
            /\ Goto("success")
       ELSE /\ Emit(<<"fetchin op">>)
            /\ Panic("spend_verify")
    /\ UNCHANGED <<args, requests, body, keypair, utxos, unsigned_tx, psbt, resp,
                   presigned_tx, deposit_psbt, signed_tx>>

Next ==
    \/ KeyMaterial
    \/ ParseFallbackAddr
    \/ BuildDepositPrevout
    \/ BuildUnsignedTx
    \/ CreatePsbt
    \/ InitiateSign
    \/ SignerFails
    \/ SignerResponds
    \/ ExtractPresigned
    \/ UpdateDeposit
    \/ SignDeposit
    \/ FinalizeDeposit
    \/ ExtractDeposit
    \/ VerifyDeposit
    \/ VerifySpend

Spec == Init /\ [][Next]_vars

---------------------------------------------------------------------------
(* Properties *)

Printed(line) == \E i \in DOMAIN stdout : stdout[i] = line
Did(stage) == \E i \in DOMAIN log : log[i] = stage

\* The stages of a complete run, in the order of the code.
StageOrder ==
    << "psbt_built", "request", "response", "spend_extracted", "sign",
       "finalize", "deposit_extracted", "verify_deposit", "verify_spend" >>

\* The stdout lines that carry a transaction.
TxLines ==
    { "Presigned Details", "Raw presigned Transaction", "Deposit PSBT",
      "Deposit Details", "Raw deposit Transaction" }

ChangeMismatch == (args.change_addr = None) # (args.change_amt = None)

\* C1: if exactly one of change_addr and change_amt is given, the run never
\* gets to send a request to the signer, and it never ends in success.
C1_MismatchFailsBeforeRequest ==
    ChangeMismatch => (requests = 0 /\ body = None /\ pc # "success")

\* C2: when the presigned spend's input does not reference output 0 of the
\* finalized deposit (wrong txid or wrong vout), the run does not end in
\* success.
C2_ForeignSpendRejected ==
    ( /\ signed_tx # None
      /\ presigned_tx # None
      /\ \E i \in DOMAIN Unwrap(presigned_tx).input :
            Unwrap(presigned_tx).input[i].previous_output
                # OutPoint(Txid(Unwrap(signed_tx)), 0) )
    => pc # "success"

\* C3: in every run that ends in success, the finalized deposit's input 0
\* spends the configured prevout.
C3_DepositSpendsConfiguredPrevout ==
    pc = "success" =>
        Unwrap(signed_tx).input[1].previous_output = args.prevout

\* C4: in every run that ends in success, the finalized deposit's output 0
\* carries the configured output_amt and the script-pubkey of output 0 of
\* the deposit PSBT the signer returned.
C4_DepositOutputAsConfigured ==
    pc = "success" =>
        /\ Out0(Unwrap(signed_tx)).value = args.output_amt
        /\ Out0(Unwrap(signed_tx)).script_pubkey =
               Out0(Unwrap(resp).deposit_psbt.unsigned_tx).script_pubkey

\* C5: a raw signed transaction (spend or deposit) is on stdout only once
\* both consensus verifications have succeeded.
C5_NoRawTxBeforeVerified ==
    (Printed("Raw presigned Transaction") \/ Printed("Raw deposit Transaction"))
    => (Printed("Transaction Result") /\ Printed("Pre-signed Transaction Result"))

C7_NewKeyOnlyPrints ==
    args.priv_key = Some("new") =>
        /\ pc \in {"key", "returned"}
        /\ requests = 0 /\ body = None /\ log = << >>
        /\ utxos = None /\ unsigned_tx = None /\ psbt = None /\ resp = None
        /\ presigned_tx = None /\ deposit_psbt = None /\ signed_tx = None
        /\ pc = "returned" =>
              (stdout = <<"priv", "pub", "address">> /\ err = "" /\ ~ENABLED Next)

C7_Witness ==
    /\ args.priv_key = Some("new")
    /\ pc = "returned"
    /\ keypair # None

C9_OnlyFinalWitnessRemains ==
    Did("finalize") =>
        \A i \in DOMAIN Unwrap(deposit_psbt).inputs :
            LET inp == Unwrap(deposit_psbt).inputs[i] IN
            /\ inp.partial_sigs = {}
            /\ inp.sighash_type = None
            /\ inp.redeem_script = None
            /\ inp.witness_script = None
            /\ inp.bip32_derivation = {}
            /\ inp.final_script_witness # None
            /\ inp.final_script_sig = None
            /\ inp.tap_key_sig = None
            /\ inp.tap_internal_key = None
            /\ inp.tap_key_origins = {}

\* C10: the unsigned deposit sent to the signer has version 2, locktime 0,
\* one input (the configured prevout, empty script-sig, empty witness,
\* sequence 0xFFFFFFFD), output 0 of output_amt with an empty script, and a
\* second output (change_amt to change_addr) exactly when change_addr is
\* given.
C10_SentDepositShape ==
    body # None =>
        LET tx == Unwrap(body).psbt.unsigned_tx IN
        /\ tx.version = 2
        /\ tx.lock_time = 0
        /\ Len(tx.input) = 1
        /\ tx.input[1].previous_output = args.prevout
        /\ tx.input[1].script_sig = << >>
        /\ tx.input[1].witness = << >>
        /\ tx.input[1].sequence = [hi |-> 65535, lo |-> 65533]
        /\ tx.output[1] = [value |-> args.output_amt, script_pubkey |-> << >>]
        /\ IF args.change_addr # None
           THEN /\ Len(tx.output) = 2
                /\ tx.output[2].value = Unwrap(args.change_amt)
                /\ tx.output[2].script_pubkey =
                       <<"OP_1", [pk_of |-> Unwrap(args.change_addr)]>>
           ELSE Len(tx.output) = 1

C10_Witness ==
    /\ body # None
    /\ args.change_addr # None
    /\ Len(Unwrap(body).psbt.unsigned_tx.output) = 2

====
